---------------------------- MODULE Spec2Model ----------------------------
(***************************************************************************)
(* A model of seqtrace/core/consens.py: the settings store                *)
(* (ConsensSeqSettings), the consensus builder (ConsensSeqBuilder) and the *)
(* editable consensus with its undo/redo history                           *)
(* (ModifiableConsensSeqBuilder).                                          *)
(*                                                                         *)
(* Strings are sequences of one-character strings.  An operation of the    *)
(* program is an operator from the object's fields (and its arguments) to  *)
(* a result record holding the fields after the call, the events it        *)
(* published in order, and the exception it raised; an action applies one  *)
(* operation to the state variables.                                       *)
(***************************************************************************)
EXTENDS Integers, Sequences, FiniteSets, TLC

VARIABLES
    settings,      \* the ConsensSeqSettings object the builder reads
    other,         \* a second ConsensSeqSettings object (argument of copyFrom)
    numseqs,       \* ConsensSeqBuilder.numseqs
    seq1aligned,   \* ConsensSeqBuilder.seq1aligned
    seq2aligned,   \* ConsensSeqBuilder.seq2aligned (<<>> when numseqs = 1)
    seq1conf,      \* column -> seqt1.getBaseCallConf(seq1indexed[column])
    seq2conf,      \* column -> seqt2.getBaseCallConf(seq2indexed[column])
    consensus,     \* ConsensSeqBuilder.consensus
    consconf,      \* ConsensSeqBuilder.consconf
    undo_stack,    \* ModifiableConsensSeqBuilder.undo_stack
    redo_stack,    \* ModifiableConsensSeqBuilder.redo_stack
    change_made,   \* ModifiableConsensSeqBuilder.change_made (FALSE: unset)
    published,     \* the events the last operation published, in order
    raised,        \* the exception the last operation raised, or NoError
    undoAvail,     \* an observer: the last value of undo_state_changed
    redoAvail,     \* an observer: the last value of redo_state_changed
    call           \* the builder method called last, with its arguments

vars == <<settings, other, numseqs, seq1aligned, seq2aligned, seq1conf,
          seq2conf, consensus, consconf, undo_stack, redo_stack, change_made,
          published, raised, undoAvail, redoAvail, call>>

builderVars == <<numseqs, seq1aligned, seq2aligned, seq1conf, seq2conf,
                 consensus, consconf, undo_stack, redo_stack, change_made,
                 undoAvail, redoAvail, call>>

(***************************************************************************)
(* Events and exceptions                                                   *)
(***************************************************************************)
NoError == "none"

Event(name, args) == [name |-> name, args |-> args]

Names(evs) == [i \in DOMAIN evs |-> evs[i].name]

Count(evs, name) == Cardinality({i \in DOMAIN evs : evs[i].name = name})

\* A builder method called with arguments args on the consensus `before`.
Call(op, args, before) == [op |-> op, args |-> args, before |-> before]

NoCall == Call("none", <<>>, <<>>)

Result(st, evs, err) == [store |-> st, published |-> evs, raised |-> err]

(***************************************************************************)
(* ConsensSeqSettings                                                      *)
(***************************************************************************)
MinConfScoreLow == 1

MinConfScoreHigh == 61

Algorithms == {"Bayesian", "legacy"}

\* The object __init__ builds.  change_made is an attribute only setAll
\* creates; no setter reads it before setAll has set it.
DefaultSettings ==
    [min_confscore |-> 30, consensus_algorithm |-> "Bayesian",
     do_autotrim |-> TRUE, autotrim_winsize |-> 10, autotrim_basecnt |-> 8,
     trim_endgaps |-> TRUE, notify_all |-> TRUE, change_made |-> FALSE]

\* The tail every setter shares once it has stored a new value: publish the
\* generic event, or note the change for the batch in progress.
NotifyChange(st, evs) ==
    IF st.notify_all
    THEN Result(st, Append(evs, Event("settings_change", <<>>)), NoError)
    ELSE Result([st EXCEPT !.change_made = TRUE], evs, NoError)

ValidMinConfScore(newval) ==
    ~((newval > MinConfScoreHigh) \/ (newval < MinConfScoreLow))

setMinConfScore(st, newval) ==
    IF ~ValidMinConfScore(newval)
    THEN Result(st, <<>>, "ConsensSeqSettingsError")
    ELSE IF st.min_confscore # newval
    THEN NotifyChange([st EXCEPT !.min_confscore = newval],
                      <<Event("min_confscore_change",
                              <<newval, st.min_confscore>>)>>)
    ELSE Result(st, <<>>, NoError)

setConsensusAlgorithm(st, newval) ==
    IF newval \notin Algorithms
    THEN Result(st, <<>>, "ConsensSeqSettingsError")
    ELSE IF st.consensus_algorithm # newval
    THEN NotifyChange([st EXCEPT !.consensus_algorithm = newval],
                      <<Event("consensus_algorithm_change", <<>>)>>)
    ELSE Result(st, <<>>, NoError)

setDoAutoTrim(st, newval) ==
    IF st.do_autotrim # newval
    THEN NotifyChange([st EXCEPT !.do_autotrim = newval],
                      <<Event("autotrim_change", <<>>)>>)
    ELSE Result(st, <<>>, NoError)

ValidAutoTrimParams(windowsize, basecount) == ~(basecount > windowsize)

setAutoTrimParams(st, windowsize, basecount) ==
    IF ~ValidAutoTrimParams(windowsize, basecount)
    THEN Result(st, <<>>, "ConsensSeqSettingsError")
    ELSE IF (st.autotrim_winsize # windowsize)
            \/ (st.autotrim_basecnt # basecount)
    THEN NotifyChange([st EXCEPT !.autotrim_winsize = windowsize,
                                 !.autotrim_basecnt = basecount],
                      <<Event("autotrim_change", <<>>)>>)
    ELSE Result(st, <<>>, NoError)

setTrimEndGaps(st, newval) ==
    IF st.trim_endgaps # newval
    THEN NotifyChange([st EXCEPT !.trim_endgaps = newval],
                      <<Event("autotrim_change", <<>>)>>)
    ELSE Result(st, <<>>, NoError)

\* AndThen with the bug of a try block that goes on after a failing setter.
AndThen_KeepsGoing(r, next) ==
    Result(next.store, r.published \o next.published,
           IF r.raised # NoError THEN r.raised ELSE next.raised)

\* One statement of a try block after the statements before it: skipped
\* when one of them raised, and its events follow theirs.
AndThen(r, next) ==
    IF r.raised # NoError THEN r
    ELSE Result(next.store, r.published \o next.published, next.raised)

\* The try block of setAll: the five setters in order.
SetAllBody(st, a) ==
    LET r1 == setMinConfScore(st, a.min_confscore)
        r2 == AndThen(r1, setConsensusAlgorithm(r1.store,
                                               a.consensus_algorithm))
        r3 == AndThen(r2, setDoAutoTrim(r2.store, a.do_autotrim))
        r4 == AndThen(r3, setAutoTrimParams(r3.store, a.autotrim_params[1],
                                            a.autotrim_params[2]))
        r5 == AndThen(r4, setTrimEndGaps(r4.store, a.trim_endgaps))
    IN r5

\* SetAllFinally with the bug of a notification placed after the try
\* statement instead of in its finally block: skipped when a setter raised.
SetAllFinally_SkipsOnError(r) ==
    Result([r.store EXCEPT !.notify_all = TRUE],
           IF r.store.change_made /\ r.raised = NoError
           THEN Append(r.published, Event("settings_change", <<>>))
           ELSE r.published,
           r.raised)

\* The finally block of setAll: it runs on both exits, and the exception, if
\* any, propagates after it.
SetAllFinally(r) ==
    Result([r.store EXCEPT !.notify_all = TRUE],
           IF r.store.change_made
           THEN Append(r.published, Event("settings_change", <<>>))
           ELSE r.published,
           r.raised)

setAll(st, a) ==
    SetAllFinally(SetAllBody([st EXCEPT !.notify_all = FALSE,
                                        !.change_made = FALSE], a))

\* copyFrom assigns the six fields with no validation and publishes nothing.
copyFrom(st, src) ==
    Result([st EXCEPT !.min_confscore = src.min_confscore,
                      !.consensus_algorithm = src.consensus_algorithm,
                      !.do_autotrim = src.do_autotrim,
                      !.autotrim_winsize = src.autotrim_winsize,
                      !.autotrim_basecnt = src.autotrim_basecnt,
                      !.trim_endgaps = src.trim_endgaps],
           <<>>, NoError)

(***************************************************************************)
(* Python sequence operations, on 0-based indexes                          *)
(***************************************************************************)
Min2(a, b) == IF a < b THEN a ELSE b

Max2(a, b) == IF a > b THEN a ELSE b

\* A slice bound as Python clamps it: a negative bound counts from the end.
PyBound(i, n) == IF i < 0 THEN Max2(i + n, 0) ELSE Min2(i, n)

\* s[i:j]
PySlice(s, i, j) == SubSeq(s, PyBound(i, Len(s)) + 1, PyBound(j, Len(s)))

\* s[i:]
PySliceFrom(s, i) == PySlice(s, i, Len(s))

\* Whether s[i] is an element (otherwise Python raises IndexError).
PyHas(s, i) == -Len(s) <= i /\ i < Len(s)

\* s[i], for an i that PyHas
PyAt(s, i) == IF i < 0 THEN s[i + Len(s) + 1] ELSE s[i + 1]

\* ' ' * n
Spaces(n) == [i \in 1..n |-> " "]

RECURSIVE Sum(_)
Sum(s) == IF s = <<>> THEN 0 ELSE Head(s) + Sum(Tail(s))

(***************************************************************************)
(* ConsensSeqBuilder: the consensus algorithms                             *)
(***************************************************************************)
Built(cons, conf) == [consensus |-> cons, consconf |-> conf]

\* A sequence has usable data at a column when its aligned character is
\* neither a gap nor 'N'.
Usable(ch) == ch \notin {"-", "N"}

\* Clears with the bug of a strict comparison.
Clears_Strict(cscore, min_confscore) == cscore > min_confscore

\* `if cscore >= min_confscore`
Clears(cscore, min_confscore) == cscore >= min_confscore

\* makeSingleConsensus with the bug of an inclusive comparison.
makeSingleConsensus_Inclusive(seq1, conf1, min_confscore) ==
    Built([cnt \in DOMAIN seq1 |->
               IF conf1[cnt] <= min_confscore THEN "N" ELSE seq1[cnt]],
          [cnt \in DOMAIN seq1 |-> conf1[cnt]])

makeSingleConsensus(seq1, conf1, min_confscore) ==
    Built([cnt \in DOMAIN seq1 |->
               IF conf1[cnt] < min_confscore THEN "N" ELSE seq1[cnt]],
          [cnt \in DOMAIN seq1 |-> conf1[cnt]])

\* One pass of the loop of makeLegacyConsensus.  cbase and cbase2 are the
\* loop's variables as the pass before left them: Python does not reset them.
LegacyColumn(ch1, sc1, ch2, sc2, cbase0, cbase20, min_confscore) ==
    LET cbase1 == IF Usable(ch1) THEN ch1 ELSE cbase0
        cscore1 == IF Usable(ch1) THEN sc1 ELSE -1
        cbase2 == IF Usable(ch2) THEN ch2 ELSE cbase20
        cscore2 == IF Usable(ch2) THEN sc2 ELSE -1
        cbase == IF Clears(cscore1, min_confscore)
                 THEN IF Clears(cscore2, min_confscore) /\ cbase1 # cbase2
                      THEN "N" ELSE cbase1
                 ELSE IF Clears(cscore2, min_confscore) THEN cbase2
                 ELSE "N"
        cscore == IF ~Clears(cscore1, min_confscore)
                     /\ Clears(cscore2, min_confscore)
                  THEN cscore2 ELSE cscore1
    IN [cbase |-> cbase, cbase2 |-> cbase2,
        conf |-> IF cscore > cscore2 THEN cscore ELSE cscore2]

RECURSIVE LegacyLoop(_, _, _, _, _, _, _, _, _)
LegacyLoop(cnt, seq1, conf1, seq2, conf2, cbase, cbase2, min_confscore, acc) ==
    IF cnt > Len(seq1) THEN acc
    ELSE LET col == LegacyColumn(seq1[cnt], conf1[cnt], seq2[cnt], conf2[cnt],
                                 cbase, cbase2, min_confscore)
         IN LegacyLoop(cnt + 1, seq1, conf1, seq2, conf2, col.cbase,
                       col.cbase2, min_confscore,
                       Built(Append(acc.consensus, col.cbase),
                             Append(acc.consconf, col.conf)))

\* Before the first pass cbase and cbase2 are unbound.
makeLegacyConsensus(seq1, conf1, seq2, conf2, min_confscore) ==
    LegacyLoop(1, seq1, conf1, seq2, conf2, "unbound", "unbound",
               min_confscore, Built(<<>>, <<>>))

(***************************************************************************)
(* The Bayesian algorithm.  Probabilities are exact fractions: an error    *)
(* probability 10 ** (score / -10.0) is a number of hundredths, which is   *)
(* exact for the scores 0, 10 and 20; a distribution of defineBasePrDist   *)
(* is in units of 1/300, and a posterior distribution is kept as its       *)
(* numerators over the shared denominator `denom`.                         *)
(***************************************************************************)
BayesBases == <<"A", "T", "G", "C">>

\* eprob = 10.0 ** (score / -10.0), in hundredths
ErrorProb(score) ==
    CASE score = 0 -> 100
      [] score = 10 -> 10
      [] score = 20 -> 1

\* distdict after defineBasePrDist(basecall, score, distdict), in 1/300
defineBasePrDist(basecall, score) ==
    [base \in {"A", "T", "G", "C"} |->
        IF base = basecall THEN 3 * (100 - ErrorProb(score))
        ELSE ErrorProb(score)]

\* distdict after calcPosteriorBasePrDist: the products likelihood * prior
\* and their sum; the probability of a base is num[base] / denom.
calcPosteriorBasePrDist(base1, score1, base2, score2) ==
    LET prior == defineBasePrDist(base1, score1)
        cond == defineBasePrDist(base2, score2)
        num == [base \in {"A", "T", "G", "C"} |-> cond[base] * prior[base]]
    IN [num |-> num,
        denom |-> num["A"] + num["T"] + num["G"] + num["C"]]

\* The scan of getMostProbableBase: 'A', then 'T', 'G', 'C', each taking over
\* only when strictly more probable.
RECURSIVE MostProbableFrom(_, _, _)
MostProbableFrom(nppd, cbase, k) ==
    IF k > Len(BayesBases) THEN cbase
    ELSE MostProbableFrom(nppd,
                          IF nppd.num[BayesBases[k]] > nppd.num[cbase]
                          THEN BayesBases[k] ELSE cbase,
                          k + 1)

\* 1000 * 10 ** (r / 10.0), rounded, for r = 0..9
TenthsOfDecade ==
    <<1000, 1259, 1585, 1995, 2512, 3162, 3981, 5012, 6310, 7943>>

\* 10 ** k, for k = 0..9
PowerOfTen(k) ==
    <<1, 10, 100, 1000, 10000, 100000, 1000000, 10000000, 100000000,
      1000000000>>[k + 1]

\* Whether -10.0 * math.log10(err / denom) + 0.000001 >= q, for an integer q
\* (at exact equality the added 0.000001 decides for >=).
PhredAtLeast(err, denom, q) ==
    err * TenthsOfDecade[(q % 10) + 1]
        <= (denom * 1000) \div PowerOfTen(q \div 10)

\* The integer part of -10.0 * math.log10(1.0 - p) + 0.000001 where
\* 1.0 - p = err / denom: its tens, then its units.  min_confscore is an
\* integer, so the integer part decides cscore >= min_confscore.
PhredScore(err, denom) ==
    LET tens == CHOOSE k \in 0..8 :
                    /\ PhredAtLeast(err, denom, 10 * k)
                    /\ ~PhredAtLeast(err, denom, 10 * (k + 1))
    IN CHOOSE q \in (10 * tens)..(10 * tens + 9) :
           /\ PhredAtLeast(err, denom, q)
           /\ ~PhredAtLeast(err, denom, q + 1)

getMostProbableBase(nppd) ==
    LET cbase == MostProbableFrom(nppd, "A", 2)
    IN [cbase |-> cbase,
        cscore |-> IF nppd.num[cbase] > 0
                   THEN PhredScore(nppd.denom - nppd.num[cbase], nppd.denom)
                   ELSE 0]

\* (a variant that ignores a second trace that alone has usable data)
BayesianColumn_FirstOnly(ch1, sc1, ch2, sc2) ==
    IF Usable(ch1) /\ Usable(ch2)
    THEN getMostProbableBase(calcPosteriorBasePrDist(ch1, sc1, ch2, sc2))
    ELSE IF Usable(ch1) THEN [cbase |-> ch1, cscore |-> sc1]
    ELSE [cbase |-> "N", cscore |-> 1]

\* One pass of the loop of makeBayesianConsensus: (cbase, cscore) before the
\* threshold is applied.
BayesianColumn(ch1, sc1, ch2, sc2) ==
    IF Usable(ch1) /\ Usable(ch2)
    THEN getMostProbableBase(calcPosteriorBasePrDist(ch1, sc1, ch2, sc2))
    ELSE IF Usable(ch1) THEN [cbase |-> ch1, cscore |-> sc1]
    ELSE IF Usable(ch2) THEN [cbase |-> ch2, cscore |-> sc2]
    ELSE [cbase |-> "N", cscore |-> 1]

\* The loop of makeBayesianConsensus from column cnt on.
RECURSIVE BayesianLoop(_, _, _, _, _, _, _)
BayesianLoop(cnt, seq1, conf1, seq2, conf2, min_confscore, acc) ==
    IF cnt > Len(seq1) THEN acc
    ELSE LET col == BayesianColumn(seq1[cnt], conf1[cnt], seq2[cnt],
                                   conf2[cnt])
         IN BayesianLoop(cnt + 1, seq1, conf1, seq2, conf2, min_confscore,
                         Built(Append(acc.consensus,
                                      IF Clears(col.cscore, min_confscore)
                                      THEN col.cbase ELSE "N"),
                               Append(acc.consconf, col.cscore)))

makeBayesianConsensus(seq1, conf1, seq2, conf2, min_confscore) ==
    BayesianLoop(1, seq1, conf1, seq2, conf2, min_confscore,
                 Built(<<>>, <<>>))

(***************************************************************************)
(* ConsensSeqBuilder: end-gap trimming and quality trimming                *)
(***************************************************************************)
\* The first index at or after i whose character is not a gap (Len(seq) when
\* there is none): the walk `while lgindex < len and seq[lgindex] == '-'`.
RECURSIVE SkipGapsRight(_, _)
SkipGapsRight(seq, i) ==
    IF (i < Len(seq)) /\ (PyAt(seq, i) = "-") THEN SkipGapsRight(seq, i + 1)
    ELSE i

\* The walk `while rgindex >= 0 and seq[rgindex] == '-'`.
RECURSIVE SkipGapsLeft(_, _)
SkipGapsLeft(seq, i) ==
    IF (i >= 0) /\ (PyAt(seq, i) = "-") THEN SkipGapsLeft(seq, i - 1)
    ELSE i

getLeftEndGapStart(ns, seq1, seq2) ==
    IF ns = 1 THEN -1
    ELSE LET lgindex == IF PyAt(seq1, 0) = "-" THEN SkipGapsRight(seq1, 0)
                        ELSE IF PyAt(seq2, 0) = "-" THEN SkipGapsRight(seq2, 0)
                        ELSE 0
         IN IF lgindex = Len(seq1) THEN -1 ELSE lgindex

getRightEndGapStart(ns, seq1, seq2) ==
    IF ns = 1 THEN -1
    ELSE LET last == Len(seq1) - 1
         IN IF PyAt(seq1, last) = "-" THEN SkipGapsLeft(seq1, last)
            ELSE IF PyAt(seq2, last) = "-" THEN SkipGapsLeft(seq2, last)
            ELSE last

\* The consensus trimEndGaps leaves.
trimEndGaps(ns, seq1, seq2, cons) ==
    IF ns = 1 THEN cons
    ELSE LET rgindex == getRightEndGapStart(ns, seq1, seq2)
             lgindex == IF rgindex = -1 THEN 0
                        ELSE getLeftEndGapStart(ns, seq1, seq2)
         IN Spaces(lgindex) \o PySlice(cons, lgindex, rgindex + 1)
               \o Spaces(Len(cons) - rgindex - 1)

\* base_to_int with the bug of 'N' counted as a good base.
BaseToInt_CountsN(base) == IF base \in {"A", "C", "G", "T", "N"} THEN 1 ELSE 0

\* base_to_int
BaseToInt(base) == IF base \in {"A", "C", "G", "T"} THEN 1 ELSE 0

Trimmed(cons, err) == [consensus |-> cons, raised |-> err]

\* The left (5') loop of trimConsensus from one test of its condition on.
RECURSIVE TrimLeftLoop(_, _, _, _, _)
TrimLeftLoop(consvals, winsize, basecnt, index, num_good) ==
    IF (num_good < basecnt) /\ ((index + winsize) < Len(consvals))
    THEN IF PyHas(consvals, index + winsize) /\ PyHas(consvals, index)
         THEN TrimLeftLoop(consvals, winsize, basecnt, index + 1,
                           num_good + PyAt(consvals, index + winsize)
                               - PyAt(consvals, index))
         ELSE [index |-> index, num_good |-> num_good, raised |-> "IndexError"]
    ELSE [index |-> index, num_good |-> num_good, raised |-> NoError]

\* TrimRightLoop with the bug of a window that stops one short of the left
\* cutoff.
RECURSIVE TrimRightLoop_StopsShort(_, _, _, _, _, _)
TrimRightLoop_StopsShort(consvals, winsize, basecnt, index_left, index, num_good) ==
    IF (num_good < basecnt) /\ ((index - winsize) > index_left)
    THEN IF PyHas(consvals, index - winsize) /\ PyHas(consvals, index)
         THEN TrimRightLoop_StopsShort(consvals, winsize, basecnt, index_left,
                                       index - 1,
                                       num_good + PyAt(consvals, index - winsize)
                                           - PyAt(consvals, index))
         ELSE [index |-> index, num_good |-> num_good, raised |-> "IndexError"]
    ELSE [index |-> index, num_good |-> num_good, raised |-> NoError]

\* The right (3') loop of trimConsensus from one test of its condition on.
RECURSIVE TrimRightLoop(_, _, _, _, _, _)
TrimRightLoop(consvals, winsize, basecnt, index_left, index, num_good) ==
    IF (num_good < basecnt) /\ ((index - winsize) >= index_left)
    THEN IF PyHas(consvals, index - winsize) /\ PyHas(consvals, index)
         THEN TrimRightLoop(consvals, winsize, basecnt, index_left, index - 1,
                            num_good + PyAt(consvals, index - winsize)
                                - PyAt(consvals, index))
         ELSE [index |-> index, num_good |-> num_good, raised |-> "IndexError"]
    ELSE [index |-> index, num_good |-> num_good, raised |-> NoError]

\* The consensus trimConsensus(winsize, basecnt) leaves, and the exception it
\* raised: self.consensus is assigned on the last line only.
trimConsensus(cons, winsize, basecnt) ==
    IF Len(cons) < winsize THEN Trimmed(cons, NoError)
    ELSE
    LET consvals == [i \in DOMAIN cons |-> BaseToInt(cons[i])]
        left == TrimLeftLoop(consvals, winsize, basecnt, 0,
                             Sum(PySlice(consvals, 0, winsize)))
        right == TrimRightLoop(consvals, winsize, basecnt, left.index,
                               Len(cons) - 1,
                               Sum(PySlice(consvals, Len(consvals) - winsize,
                                           Len(consvals))))
    IN IF left.raised # NoError THEN Trimmed(cons, left.raised)
       ELSE IF right.raised # NoError THEN Trimmed(cons, right.raised)
       ELSE IF right.num_good < basecnt
       THEN Trimmed(Spaces(Len(cons)), NoError)
       ELSE Trimmed(Spaces(left.index)
                        \o PySlice(cons, left.index, right.index + 1)
                        \o Spaces(Len(cons) - right.index - 1),
                    NoError)

\* The consensus and confidences of the algorithm the settings select.
BuildUntrimmed(ns, seq1, conf1, seq2, conf2, st) ==
    IF ns = 1 THEN makeSingleConsensus(seq1, conf1, st.min_confscore)
    ELSE IF st.consensus_algorithm = "Bayesian"
    THEN makeBayesianConsensus(seq1, conf1, seq2, conf2, st.min_confscore)
    ELSE makeLegacyConsensus(seq1, conf1, seq2, conf2, st.min_confscore)

\* The fields makeConsensusSequence leaves, and the exception it raised.
makeConsensusSequence(ns, seq1, conf1, seq2, conf2, st) ==
    LET raw == BuildUntrimmed(ns, seq1, conf1, seq2, conf2, st)
        ungapped == IF st.trim_endgaps
                    THEN trimEndGaps(ns, seq1, seq2, raw.consensus)
                    ELSE raw.consensus
        trimmed == trimConsensus(ungapped, st.autotrim_winsize,
                                 st.autotrim_basecnt)
    IN IF st.do_autotrim
       THEN [consensus |-> trimmed.consensus, consconf |-> raw.consconf,
             raised |-> trimmed.raised]
       ELSE [consensus |-> raw.consensus, consconf |-> raw.consconf,
             raised |-> NoError]

(***************************************************************************)
(* The arguments the settings operations are called with                   *)
(***************************************************************************)
ScoreArgs == {MinConfScoreLow - 1, 30, MinConfScoreHigh, MinConfScoreHigh + 1}

AlgorithmArgs == Algorithms \cup {"bogus"}

\* (windowsize, basecount)
ParamArgs == {<<10, 8>>, <<0, 0>>, <<10, 11>>}

SetAllArgs ==
    [min_confscore : ScoreArgs, consensus_algorithm : AlgorithmArgs,
     do_autotrim : BOOLEAN, autotrim_params : ParamArgs,
     trim_endgaps : BOOLEAN]

\* Both stores take the three validating setters; the flag setters and the
\* batch are exercised on `settings`, which also imports `other`.
Targets == {"settings", "other"}

StoreOf(tgt) == IF tgt = "settings" THEN settings ELSE other

\* A call on the store `tgt` returned (or raised) with result r.
SettingsCall(tgt, r) ==
    /\ settings' = IF tgt = "settings" THEN r.store ELSE settings
    /\ other' = IF tgt = "other" THEN r.store ELSE other
    /\ published' = r.published
    /\ raised' = r.raised
    /\ UNCHANGED builderVars

SetMinConfScore ==
    \E tgt \in Targets, v \in ScoreArgs :
        SettingsCall(tgt, setMinConfScore(StoreOf(tgt), v))

SetConsensusAlgorithm ==
    \E tgt \in Targets, v \in AlgorithmArgs :
        SettingsCall(tgt, setConsensusAlgorithm(StoreOf(tgt), v))

SetDoAutoTrim ==
    \E v \in BOOLEAN : SettingsCall("settings", setDoAutoTrim(settings, v))

SetAutoTrimParams ==
    \E tgt \in Targets, p \in ParamArgs :
        SettingsCall(tgt, setAutoTrimParams(StoreOf(tgt), p[1], p[2]))

SetTrimEndGaps ==
    \E v \in BOOLEAN : SettingsCall("settings", setTrimEndGaps(settings, v))

SetAll ==
    \E a \in SetAllArgs : SettingsCall("settings", setAll(settings, a))

CopyFrom == SettingsCall("settings", copyFrom(settings, other))

\* Two freshly constructed stores; no builder.
SettingsInit ==
    /\ settings = DefaultSettings
    /\ other = DefaultSettings
    /\ numseqs = 0
    /\ seq1aligned = <<>>
    /\ seq2aligned = <<>>
    /\ seq1conf = <<>>
    /\ seq2conf = <<>>
    /\ consensus = <<>>
    /\ consconf = <<>>
    /\ undo_stack = <<>>
    /\ redo_stack = <<>>
    /\ change_made = FALSE
    /\ published = <<>>
    /\ raised = NoError
    /\ undoAvail = FALSE
    /\ redoAvail = FALSE
    /\ call = NoCall

SettingsNext ==
    \/ SetMinConfScore
    \/ SetConsensusAlgorithm
    \/ SetDoAutoTrim
    \/ SetAutoTrimParams
    \/ SetTrimEndGaps
    \/ SetAll
    \/ CopyFrom

SettingsSpec == SettingsInit /\ [][SettingsNext]_vars

(***************************************************************************)
(* Quality trimming on its own: trimConsensus called with any arguments on *)
(* any consensus.                                                          *)
(***************************************************************************)
MaxTrimLen == 3

TrimAlphabet == {"A", "G", "N", " "}

\* "NNNACGTNNN"
TrimExample == <<"N", "N", "N", "A", "C", "G", "T", "N", "N", "N">>

TrimInputs ==
    UNION {[1..n -> TrimAlphabet] : n \in 0..MaxTrimLen} \cup {TrimExample}

TrimArgs == (-1)..(MaxTrimLen + 1)

\* A builder holding some consensus; its other fields play no part.
TrimInit ==
    /\ settings = DefaultSettings
    /\ other = DefaultSettings
    /\ numseqs = 1
    /\ seq1aligned = <<>>
    /\ seq2aligned = <<>>
    /\ seq1conf = <<>>
    /\ seq2conf = <<>>
    /\ consensus \in TrimInputs
    /\ consconf = <<>>
    /\ undo_stack = <<>>
    /\ redo_stack = <<>>
    /\ change_made = FALSE
    /\ published = <<>>
    /\ raised = NoError
    /\ undoAvail = FALSE
    /\ redoAvail = FALSE
    /\ call = NoCall

TrimConsensus ==
    \E winsize \in TrimArgs, basecnt \in TrimArgs :
        LET r == trimConsensus(consensus, winsize, basecnt)
        IN /\ consensus' = r.consensus
           /\ raised' = r.raised
           /\ published' = <<>>
           /\ call' = Call("trimConsensus", <<winsize, basecnt>>, consensus)
           /\ UNCHANGED <<settings, other, numseqs, seq1aligned, seq2aligned,
                          seq1conf, seq2conf, consconf, undo_stack,
                          redo_stack, change_made, undoAvail, redoAvail>>

TrimNext == TrimConsensus

TrimSpec == TrimInit /\ [][TrimNext]_vars

(***************************************************************************)
(* Construction: a ConsensSeqBuilder built from one trace or from two      *)
(* aligned traces under any settings.                                      *)
(***************************************************************************)
MaxCols == 2

Cell(ch, conf) == [ch |-> ch, conf |-> conf]

\* A column of a single trace: a base call and its confidence score.
SingleCells == {Cell("A", 10), Cell("A", 20), Cell("T", 20), Cell("N", 20)}

\* A column of one sequence of an alignment.  The score at a gap or an 'N' is
\* never read in two-sequence mode.
PairCells ==
    {Cell("-", 0), Cell("N", 0), Cell("A", 10), Cell("A", 20), Cell("T", 20)}

Thresholds == {20, 30}

\* (do_autotrim, trim_endgaps, autotrim_winsize, autotrim_basecnt)
TrimVariants ==
    {<<FALSE, TRUE, 10, 8>>, <<TRUE, TRUE, 2, 1>>, <<TRUE, FALSE, 2, 1>>}

BuildSettings ==
    {[DefaultSettings EXCEPT !.min_confscore = t,
                             !.consensus_algorithm = alg,
                             !.do_autotrim = v[1], !.trim_endgaps = v[2],
                             !.autotrim_winsize = v[3],
                             !.autotrim_basecnt = v[4]] :
        t \in Thresholds, alg \in Algorithms, v \in TrimVariants}

Chars(cells) == [i \in DOMAIN cells |-> cells[i].ch]

Confs(cells) == [i \in DOMAIN cells |-> cells[i].conf]

\* The arguments of the constructor are chosen; no method has run.
BuildInit ==
    /\ settings \in BuildSettings
    /\ other = DefaultSettings
    /\ numseqs \in {1, 2}
    /\ \E n \in 1..MaxCols :
           IF numseqs = 1
           THEN \E t1 \in [1..n -> SingleCells] :
                    /\ seq1aligned = Chars(t1)
                    /\ seq1conf = Confs(t1)
                    /\ seq2aligned = <<>>
                    /\ seq2conf = <<>>
           ELSE \E t1 \in [1..n -> PairCells], t2 \in [1..n -> PairCells] :
                    /\ seq1aligned = Chars(t1)
                    /\ seq1conf = Confs(t1)
                    /\ seq2aligned = Chars(t2)
                    /\ seq2conf = Confs(t2)
    /\ consensus = <<>>
    /\ consconf = <<>>
    /\ undo_stack = <<>>
    /\ redo_stack = <<>>
    /\ change_made = FALSE
    /\ published = <<>>
    /\ raised = NoError
    /\ undoAvail = FALSE
    /\ redoAvail = FALSE
    /\ call = NoCall

\* ConsensSeqBuilder.__init__: makeConsensusSequence on the aligned traces.
Construct ==
    /\ call.op = "none"
    /\ LET r == makeConsensusSequence(numseqs, seq1aligned, seq1conf,
                                      seq2aligned, seq2conf, settings)
       IN /\ consensus' = r.consensus
          /\ consconf' = r.consconf
          /\ raised' = r.raised
    /\ published' = <<>>
    /\ call' = Call("__init__", <<>>, <<>>)
    /\ UNCHANGED <<settings, other, numseqs, seq1aligned, seq2aligned,
                   seq1conf, seq2conf, undo_stack, redo_stack, change_made,
                   undoAvail, redoAvail>>

BuildNext == Construct

BuildSpec == BuildInit /\ [][BuildNext]_vars


(***************************************************************************)
(* Properties of the settings store                                        *)
(***************************************************************************)
SettingFields ==
    {"min_confscore", "consensus_algorithm", "do_autotrim",
     "autotrim_winsize", "autotrim_basecnt", "trim_endgaps"}

\* The stored values of a store, without its notification flags.
Stored(st) == [f \in SettingFields |-> st[f]]

IsLast(evs, name) == evs # <<>> /\ evs[Len(evs)].name = name

\* C3: from every reachable store and for every argument tuple, setAll
\* publishes settings_change exactly once when the call changed a stored
\* value (whether it returned or raised) and never otherwise, and that one
\* event is the last event of the call, after every setter's own event.
C3_SetAllPublishesOnce ==
    \A a \in SetAllArgs :
        LET r == setAll(settings, a)
            changed == Stored(r.store) # Stored(settings)
        IN /\ Count(r.published, "settings_change")
                  = (IF changed THEN 1 ELSE 0)
           /\ changed => IsLast(r.published, "settings_change")

\* C3 witness: a batch has run that changed two fields, then failed, and
\* published its single settings_change last.
C3_Witness ==
    /\ raised = "ConsensSeqSettingsError"
    /\ Len(published) = 3
    /\ Count(published, "settings_change") = 1
    /\ IsLast(published, "settings_change")

\* The position (1..5, in the order minConfScore, algorithm, autoTrim,
\* window/basecount, trimEndGaps) of the first argument of a batch that
\* fails validation, 0 when none does.
FailingField(a) ==
    IF a.min_confscore < 1 \/ a.min_confscore > 61 THEN 1
    ELSE IF a.consensus_algorithm \notin {"Bayesian", "legacy"} THEN 2
    ELSE IF a.autotrim_params[2] > a.autotrim_params[1] THEN 4
    ELSE 0

\* What the batch's arguments ask each stored field to become, with the
\* position of the setter that stores it.
Requested(a) ==
    [min_confscore |-> <<1, a.min_confscore>>,
     consensus_algorithm |-> <<2, a.consensus_algorithm>>,
     do_autotrim |-> <<3, a.do_autotrim>>,
     autotrim_winsize |-> <<4, a.autotrim_params[1]>>,
     autotrim_basecnt |-> <<4, a.autotrim_params[2]>>,
     trim_endgaps |-> <<5, a.trim_endgaps>>]

\* Every call of an individual setter on store st that changes a stored
\* value publishes settings_change.
SettersNotify(st) ==
    LET calls ==
            {setMinConfScore(st, v) : v \in ScoreArgs}
            \cup {setConsensusAlgorithm(st, v) : v \in AlgorithmArgs}
            \cup {setDoAutoTrim(st, v) : v \in BOOLEAN}
            \cup {setAutoTrimParams(st, p[1], p[2]) : p \in ParamArgs}
            \cup {setTrimEndGaps(st, v) : v \in BOOLEAN}
    IN \A r \in calls :
           Stored(r.store) # Stored(st)
               => Count(r.published, "settings_change") = 1

\* C4: when an argument of setAll fails validation the error reaches the
\* caller, the fields of the setters before the failing one hold their new
\* values, the failing field and the later ones hold their old values, and
\* the store is back in normal notification mode, so that the next
\* value-changing setter publishes settings_change itself.
C4_SetAllFailure ==
    \A a \in SetAllArgs :
        LET r == setAll(settings, a)
            k == FailingField(a)
        IN k # 0 =>
            /\ r.raised = "ConsensSeqSettingsError"
            /\ \A f \in SettingFields :
                   r.store[f] = (IF Requested(a)[f][1] < k
                                 THEN Requested(a)[f][2] ELSE settings[f])
            /\ r.store.notify_all
            /\ SettersNotify(r.store)

\* C4 witness: a batch has failed after it had stored a new value, and the
\* store is in normal notification mode.
C4_Witness ==
    /\ raised = "ConsensSeqSettingsError"
    /\ published # <<>>
    /\ settings.change_made
    /\ settings.notify_all

\* C5: every reachable store has 1 <= minConfScore <= 61, a positive
\* autoTrimWindow, autoTrimBaseCount <= autoTrimWindow and one of the two
\* recognised algorithm names.
C5_SettingsInvariant ==
    /\ 1 <= settings.min_confscore /\ settings.min_confscore <= 61
    /\ settings.autotrim_winsize > 0
    /\ settings.autotrim_basecnt <= settings.autotrim_winsize
    /\ settings.consensus_algorithm \in {"Bayesian", "legacy"}

\* The part of C5 the setters do enforce: every conjunct but the positive
\* window.
SettingsValidated ==
    \A st \in {settings, other} :
        /\ 1 <= st.min_confscore /\ st.min_confscore <= 61
        /\ st.autotrim_basecnt <= st.autotrim_winsize
        /\ st.consensus_algorithm \in {"Bayesian", "legacy"}

(***************************************************************************)
(* ModifiableConsensSeqBuilder: editing with undo and redo                 *)
(***************************************************************************)
\* The fields of the builder that the editing methods read and write.
Builder(cons, conf, undos, redos, changed) ==
    [consensus |-> cons, consconf |-> conf, undo_stack |-> undos,
     redo_stack |-> redos, change_made |-> changed]

EditResult(b, evs, err) == [builder |-> b, published |-> evs, raised |-> err]

\* An entry of the undo or of the redo stack.
Record(start, end, data) == [start |-> start, end |-> end, data |-> data]

\* cons[0:start] + data + cons[end+1:]
Splice(cons, start, end, data) ==
    PySlice(cons, 0, start) \o data \o PySliceFrom(cons, end + 1)

\* (a variant that announces every push)
UndoPushed_Always(stack) == <<Event("undo_state_changed", <<TRUE>>)>>

\* After a push: if len(self.undo_stack) == 1, undo_state_changed(True).
UndoPushed(stack) ==
    IF Len(stack) = 1 THEN <<Event("undo_state_changed", <<TRUE>>)>>
    ELSE <<>>

\* After a pop: if len(stack) == 0, the stack's event with False.
Emptied(stack, name) ==
    IF Len(stack) = 0 THEN <<Event(name, <<FALSE>>)>> ELSE <<>>

\* After a push: if len(self.redo_stack) == 1, redo_state_changed(True).
RedoPushed(stack) ==
    IF Len(stack) = 1 THEN <<Event("redo_state_changed", <<TRUE>>)>>
    ELSE <<>>

\* (a variant that forgets the pending redo records on a new edit)
deleteBases_ForgetsRedo(b, start_index, end_index) ==
    LET start == IF start_index > end_index THEN end_index ELSE start_index
        end == IF start_index > end_index THEN start_index ELSE end_index
        undos == Append(b.undo_stack,
                        Record(start, end,
                               PySlice(b.consensus, start, end + 1)))
    IN EditResult([b EXCEPT !.undo_stack = undos,
                            !.redo_stack = <<>>,
                            !.consensus = Splice(b.consensus, start, end,
                                                 Spaces(end - start + 1))],
                  <<Event("consensus_changed", <<start, end>>)>>
                      \o UndoPushed(undos)
                      \o (IF b.redo_stack # <<>>
                          THEN <<Event("redo_state_changed", <<FALSE>>)>>
                          ELSE <<>>),
                  NoError)

deleteBases(b, start_index, end_index) ==
    LET start == IF start_index > end_index THEN end_index ELSE start_index
        end == IF start_index > end_index THEN start_index ELSE end_index
        undos == Append(b.undo_stack,
                        Record(start, end,
                               PySlice(b.consensus, start, end + 1)))
    IN EditResult([b EXCEPT !.undo_stack = undos,
                            !.consensus = Splice(b.consensus, start, end,
                                                 Spaces(end - start + 1))],
                  <<Event("consensus_changed", <<start, end>>)>>
                      \o UndoPushed(undos),
                  NoError)

\* (a variant that records the undo information before testing the length)
modifyBases_RecordsFirst(b, start_index, end_index, newseq) ==
    LET start == IF start_index > end_index THEN end_index ELSE start_index
        end == IF start_index > end_index THEN start_index ELSE end_index
        undos == Append(b.undo_stack,
                        Record(start, end,
                               PySlice(b.consensus, start, end + 1)))
        recorded == [b EXCEPT !.undo_stack = undos]
    IN IF Len(newseq) # end - start + 1
       THEN EditResult(recorded, <<>>, "ConsensSeqBuilderError")
       ELSE EditResult([recorded EXCEPT !.consensus =
                                            Splice(b.consensus, start, end,
                                                   newseq)],
                       <<Event("consensus_changed", <<start, end>>)>>
                           \o UndoPushed(undos),
                       NoError)

modifyBases(b, start_index, end_index, newseq) ==
    LET start == IF start_index > end_index THEN end_index ELSE start_index
        end == IF start_index > end_index THEN start_index ELSE end_index
        undos == Append(b.undo_stack,
                        Record(start, end,
                               PySlice(b.consensus, start, end + 1)))
    IN IF Len(newseq) # end - start + 1
       THEN EditResult(b, <<>>, "ConsensSeqBuilderError")
       ELSE EditResult([b EXCEPT !.undo_stack = undos,
                                 !.consensus = Splice(b.consensus, start,
                                                      end, newseq)],
                       <<Event("consensus_changed", <<start, end>>)>>
                           \o UndoPushed(undos),
                       NoError)

\* (a variant that records and announces a rebuild that changed nothing)
recalcConsensusSequence_AlwaysRecords(b, ns, seq1, conf1, seq2, conf2, st) ==
    LET oldcons == b.consensus
        made == makeConsensusSequence(ns, seq1, conf1, seq2, conf2, st)
        rebuilt == [b EXCEPT !.consensus = made.consensus,
                             !.consconf = made.consconf]
        last == Len(made.consensus) - 1
        undos == Append(b.undo_stack, Record(0, last, oldcons))
    IN IF made.raised # NoError THEN EditResult(rebuilt, <<>>, made.raised)
       ELSE EditResult([rebuilt EXCEPT !.undo_stack = undos],
                       <<Event("consensus_changed", <<0, last>>)>>
                           \o UndoPushed(undos),
                       NoError)

\* The traces and the settings are those of the builder; an exception of
\* makeConsensusSequence leaves what it had assigned and propagates.
recalcConsensusSequence(b, ns, seq1, conf1, seq2, conf2, st) ==
    LET oldcons == b.consensus
        made == makeConsensusSequence(ns, seq1, conf1, seq2, conf2, st)
        rebuilt == [b EXCEPT !.consensus = made.consensus,
                             !.consconf = made.consconf]
        last == Len(made.consensus) - 1
        undos == Append(b.undo_stack, Record(0, last, oldcons))
    IN IF made.raised # NoError THEN EditResult(rebuilt, <<>>, made.raised)
       ELSE IF oldcons # made.consensus
       THEN EditResult([rebuilt EXCEPT !.undo_stack = undos],
                       <<Event("consensus_changed", <<0, last>>)>>
                           \o UndoPushed(undos),
                       NoError)
       ELSE EditResult(rebuilt, <<>>, NoError)

\* (a variant that pops the record without writing its data back)
undo_KeepsConsensus(b) ==
    IF Len(b.undo_stack) > 0
    THEN LET u == b.undo_stack[Len(b.undo_stack)]
             undos == SubSeq(b.undo_stack, 1, Len(b.undo_stack) - 1)
             redos == Append(b.redo_stack,
                             Record(u.start, u.end,
                                    PySlice(b.consensus, u.start,
                                            u.end + 1)))
         IN EditResult([b EXCEPT !.undo_stack = undos,
                                 !.redo_stack = redos],
                       <<Event("consensus_changed", <<u.start, u.end>>)>>
                           \o RedoPushed(redos)
                           \o Emptied(undos, "undo_state_changed"),
                       NoError)
    ELSE EditResult(b, <<>>, NoError)

undo(b) ==
    IF Len(b.undo_stack) > 0
    THEN LET u == b.undo_stack[Len(b.undo_stack)]
             undos == SubSeq(b.undo_stack, 1, Len(b.undo_stack) - 1)
             redos == Append(b.redo_stack,
                             Record(u.start, u.end,
                                    PySlice(b.consensus, u.start,
                                            u.end + 1)))
         IN EditResult([b EXCEPT !.undo_stack = undos,
                                 !.redo_stack = redos,
                                 !.consensus = Splice(b.consensus, u.start,
                                                      u.end, u.data)],
                       <<Event("consensus_changed", <<u.start, u.end>>)>>
                           \o RedoPushed(redos)
                           \o Emptied(undos, "undo_state_changed"),
                       NoError)
    ELSE EditResult(b, <<>>, NoError)

\* redo also sets change_made when it empties the redo stack.
redo(b) ==
    IF Len(b.redo_stack) > 0
    THEN LET r == b.redo_stack[Len(b.redo_stack)]
             redos == SubSeq(b.redo_stack, 1, Len(b.redo_stack) - 1)
             undos == Append(b.undo_stack,
                             Record(r.start, r.end,
                                    PySlice(b.consensus, r.start,
                                            r.end + 1)))
         IN EditResult([b EXCEPT !.undo_stack = undos,
                                 !.redo_stack = redos,
                                 !.consensus = Splice(b.consensus, r.start,
                                                      r.end, r.data),
                                 !.change_made =
                                     IF Len(redos) = 0 THEN TRUE ELSE @],
                       <<Event("consensus_changed", <<r.start, r.end>>)>>
                           \o UndoPushed(undos)
                           \o Emptied(redos, "redo_state_changed"),
                       NoError)
    ELSE EditResult(b, <<>>, NoError)

(***************************************************************************)
(* The editable consensus: a ModifiableConsensSeqBuilder built from one    *)
(* trace or from two aligned traces, then edited, recalculated, undone and *)
(* redone.                                                                 *)
(***************************************************************************)
\* How many records the two stacks hold together before editing stops.
MaxHist == 3

EditAlphabet == {"G"}

\* The replacement strings of modifyBases: as long as the range, or not.
NewBases == UNION {[1..n -> EditAlphabet] : n \in 1..Len(seq1aligned)}

\* The in-range indexes of the consensus.
Indexes == 0..(Len(consensus) - 1)

\* The builder in the current state.
Self == Builder(consensus, consconf, undo_stack, redo_stack, change_made)

\* The value an observer of the event `name` holds after the events evs.
Observed(evs, name, held) ==
    LET at == {i \in DOMAIN evs : evs[i].name = name}
    IN IF at = {} THEN held
       ELSE evs[CHOOSE i \in at : \A j \in at : j <= i].args[1]

\* A method of the builder called as op(args) returned (or raised) with
\* result r.
EditCall(op, args, r) ==
    /\ consensus' = r.builder.consensus
    /\ consconf' = r.builder.consconf
    /\ undo_stack' = r.builder.undo_stack
    /\ redo_stack' = r.builder.redo_stack
    /\ change_made' = r.builder.change_made
    /\ published' = r.published
    /\ raised' = r.raised
    /\ undoAvail' = Observed(r.published, "undo_state_changed", undoAvail)
    /\ redoAvail' = Observed(r.published, "redo_state_changed", redoAvail)
    /\ call' = Call(op, args, <<>>)
    /\ UNCHANGED <<settings, other, numseqs, seq1aligned, seq2aligned,
                   seq1conf, seq2conf>>

HistoryRoom == Len(undo_stack) + Len(redo_stack) < MaxHist

DeleteBases ==
    /\ HistoryRoom
    /\ \E a \in Indexes, b \in Indexes :
           EditCall("deleteBases", <<a, b>>, deleteBases(Self, a, b))

ModifyBases ==
    /\ HistoryRoom
    /\ \E a \in Indexes, b \in Indexes, newseq \in NewBases :
           EditCall("modifyBases", <<a, b, newseq>>,
                    modifyBases(Self, a, b, newseq))

RecalcConsensusSequence ==
    /\ HistoryRoom
    /\ EditCall("recalcConsensusSequence", <<>>,
                recalcConsensusSequence(Self, numseqs, seq1aligned, seq1conf,
                                        seq2aligned, seq2conf, settings))

Undo == EditCall("undo", <<>>, undo(Self))

Redo == EditCall("redo", <<>>, redo(Self))

\* The settings of the edited builders: auto-trim with end-gap trimming.
\* (do_autotrim, trim_endgaps, autotrim_winsize, autotrim_basecnt)
EditSettings ==
    {[DefaultSettings EXCEPT !.min_confscore = 20, !.do_autotrim = v[1],
                             !.trim_endgaps = v[2],
                             !.autotrim_winsize = v[3],
                             !.autotrim_basecnt = v[4]] :
        v \in {<<TRUE, TRUE, 2, 1>>}}

Traces(ns, t1, t2) == [numseqs |-> ns, t1 |-> t1, t2 |-> t2]

\* One trace with a base below the threshold; an alignment with an end gap;
\* an alignment with a column that is a gap in both sequences.
EditTraces ==
    {Traces(1, <<Cell("A", 10), Cell("T", 20)>>, <<>>),
     Traces(2, <<Cell("A", 20), Cell("-", 0)>>,
               <<Cell("A", 20), Cell("T", 20)>>),
     Traces(2, <<Cell("A", 20), Cell("-", 0)>>,
               <<Cell("-", 0), Cell("-", 0)>>)}

\* The builder as ModifiableConsensSeqBuilder.__init__ leaves it.
Init ==
    /\ settings \in EditSettings
    /\ other = DefaultSettings
    /\ \E t \in EditTraces :
           /\ numseqs = t.numseqs
           /\ seq1aligned = Chars(t.t1)
           /\ seq1conf = Confs(t.t1)
           /\ seq2aligned = Chars(t.t2)
           /\ seq2conf = Confs(t.t2)
    /\ LET r == makeConsensusSequence(numseqs, seq1aligned, seq1conf,
                                      seq2aligned, seq2conf, settings)
       IN /\ consensus = r.consensus
          /\ consconf = r.consconf
          /\ raised = r.raised
    /\ undo_stack = <<>>
    /\ redo_stack = <<>>
    /\ change_made = FALSE
    /\ published = <<>>
    /\ undoAvail = FALSE
    /\ redoAvail = FALSE
    /\ call = Call("__init__", <<>>, <<>>)

Next ==
    \/ DeleteBases
    \/ ModifyBases
    \/ RecalcConsensusSequence
    \/ Undo
    \/ Redo

Spec == Init /\ [][Next]_vars

(***************************************************************************)
(* Properties of the edit history                                          *)
(***************************************************************************)
Abs(x) == IF x < 0 THEN -x ELSE x

\* The replacement strings the round trip is tried with.
Replacements == UNION {[1..n -> {"G", "N"}] : n \in 1..Len(consensus)}

Publishes(evs, name, value) ==
    \E i \in DOMAIN evs : evs[i] = Event(name, <<value>>)

\* An operation publishes a stack's event with True exactly when it takes
\* the stack from 0 to 1 records and with False exactly when it takes it
\* from 1 to 0 records.
BoundaryCrossingsOnly ==
    /\ Publishes(published', "undo_state_changed", TRUE)
           <=> (Len(undo_stack) = 0 /\ Len(undo_stack') = 1)
    /\ Publishes(published', "undo_state_changed", FALSE)
           <=> (Len(undo_stack) = 1 /\ Len(undo_stack') = 0)
    /\ Publishes(published', "redo_state_changed", TRUE)
           <=> (Len(redo_stack) = 0 /\ Len(redo_stack') = 1)
    /\ Publishes(published', "redo_state_changed", FALSE)
           <=> (Len(redo_stack) = 1 /\ Len(redo_stack') = 0)
    /\ Count(published', "undo_state_changed") <= 1
    /\ Count(published', "redo_state_changed") <= 1

\* C2: every operation publishes undo_state_changed(True) if and only if it
\* took the undo stack from 0 to 1 records and undo_state_changed(False) if
\* and only if it took it from 1 to 0 records, and the same for
\* redo_state_changed and the redo stack; so the value an observer holds for
\* each stack (at first: not available) always tells whether that stack is
\* non-empty, and an undo after three edits publishes no undo_state_changed.
C2_AvailabilityAtBoundaries ==
    /\ [][BoundaryCrossingsOnly]_vars
    /\ [](undoAvail = (undo_stack # <<>>))
    /\ [](redoAvail = (redo_stack # <<>>))

\* C2 witness: three edits were made and the last one undone; the undo left
\* two records, made redo available, and published no undo_state_changed.
C2_Witness ==
    /\ call.op = "undo"
    /\ Len(undo_stack) = 2
    /\ Len(redo_stack) = 1
    /\ Publishes(published, "redo_state_changed", TRUE)
    /\ Count(published, "undo_state_changed") = 0
    /\ undoAvail

(***************************************************************************)
(* Properties of failing calls                                             *)
(***************************************************************************)
\* The call raised err, returned the object as it was and published nothing.
FailedCleanly(r, obj, before, err) ==
    /\ r.raised = err
    /\ obj = before
    /\ r.published = <<>>

\* The stores the failing setters are tried on.
StoresTried == {settings, other}

\* The replacement strings of every length up to one more than the consensus.
AnyReplacements ==
    UNION {[1..n -> EditAlphabet] : n \in 0..(Len(consensus) + 1)}

\* From the current state, each of the four calls with a rejected argument
\* raises, returns its object as it was and publishes nothing.
RejectedCallsFailCleanly ==
    /\ \A a \in Indexes, b \in Indexes, newseq \in AnyReplacements :
           Len(newseq) # Abs(b - a) + 1 =>
               LET r == modifyBases(Self, a, b, newseq)
               IN FailedCleanly(r, r.builder, Self, "ConsensSeqBuilderError")
    /\ \A st \in StoresTried :
           /\ \A v \in {MinConfScoreLow - 1, MinConfScoreHigh + 1} :
                  LET r == setMinConfScore(st, v)
                  IN FailedCleanly(r, r.store, st, "ConsensSeqSettingsError")
           /\ \A p \in {<<10, 11>>, <<0, 1>>, <<-2, -1>>} :
                  LET r == setAutoTrimParams(st, p[1], p[2])
                  IN FailedCleanly(r, r.store, st, "ConsensSeqSettingsError")
           /\ LET r == setConsensusAlgorithm(st, "bogus")
              IN FailedCleanly(r, r.store, st, "ConsensSeqSettingsError")

\* A step whose call raised one of the two errors changed neither the
\* consensus, nor a stack, nor a settings object, and published nothing.
FailedStepChangesNothing ==
    raised' \in {"ConsensSeqBuilderError", "ConsensSeqSettingsError"} =>
        /\ UNCHANGED <<consensus, consconf, undo_stack, redo_stack,
                       change_made, settings, other, undoAvail, redoAvail>>
        /\ published' = <<>>

\* C11: modifyBases(a, b, newBases) with len(newBases) # |b-a|+1,
\* setMinConfScore outside [1, 61], setAutoTrimParams with basecount >
\* window and setConsensusAlgorithm with an unrecognised name each raise
\* their error, leave the consensus, the undo stack, the redo stack and every
\* settings field unchanged, and publish no event.
C11_FailureAtomicity ==
    /\ []RejectedCallsFailCleanly
    /\ [][FailedStepChangesNothing]_vars

\* C11 witness: with an edit on each stack, a modifyBases whose replacement
\* is one base longer than its range has raised.
C11_Witness ==
    /\ call.op = "modifyBases"
    /\ raised = "ConsensSeqBuilderError"
    /\ Len(call.args[3]) = Abs(call.args[2] - call.args[1]) + 2
    /\ undo_stack # <<>>
    /\ redo_stack # <<>>
    /\ published = <<>>

(***************************************************************************)
(* Properties of recalculation                                             *)
(***************************************************************************)
\* The settings a recalculation is tried under, besides the builder's own
\* of the recalculation steps: the same with the default threshold.
RecalcSettings ==
    {[settings EXCEPT !.min_confscore = DefaultSettings.min_confscore]}

\* What the builder `after` and the events evs must be when a
\* recalculation under st was called on the builder `before`.
Recalculated(before, after, evs, st) ==
    LET made == makeConsensusSequence(numseqs, seq1aligned, seq1conf,
                                      seq2aligned, seq2conf, st)
        last == Len(before.consensus) - 1
    IN /\ after.consensus = made.consensus
       /\ after.redo_stack = before.redo_stack
       /\ IF made.consensus # before.consensus
          THEN /\ after.undo_stack
                      = Append(before.undo_stack,
                               Record(0, last, before.consensus))
               /\ Count(evs, "consensus_changed") = 1
               /\ \E i \in DOMAIN evs :
                      evs[i] = Event("consensus_changed", <<0, last>>)
          ELSE /\ after.undo_stack = before.undo_stack
               /\ evs = <<>>

\* From the current state, under each of the settings tried.
RecalcFromHere ==
    \A st \in RecalcSettings :
        LET r == recalcConsensusSequence(Self, numseqs, seq1aligned,
                                         seq1conf, seq2aligned, seq2conf, st)
        IN /\ r.raised = NoError
           /\ Recalculated(Self, r.builder, r.published, st)

\* A step that was a call of recalcConsensusSequence.
RecalcStep ==
    call'.op = "recalcConsensusSequence" =>
        Recalculated(Self,
                     Builder(consensus', consconf', undo_stack', redo_stack',
                             change_made'),
                     published', settings)

\* C12: recalcConsensusSequence rebuilds the consensus from the traces and
\* the current settings; it pushes exactly one undo record with start 0, end
\* len-1 and the full consensus held before the call, and publishes
\* consensus_changed(0, len-1), if and only if the rebuilt consensus differs
\* from that prior string; when it is equal it pushes and publishes nothing.
C12_RecalcRecordsChange ==
    /\ []RecalcFromHere
    /\ [][RecalcStep]_vars

\* C12 witness: after a manual edit that wrote a 'G', a recalculation put
\* the built consensus back, pushed the edited consensus as a second record
\* over the whole range and published consensus_changed alone.
C12_Witness ==
    /\ call.op = "recalcConsensusSequence"
    /\ Len(undo_stack) = 2
    /\ undo_stack[2].start = 0
    /\ undo_stack[2].end = Len(consensus) - 1
    /\ \E i \in DOMAIN undo_stack[2].data : undo_stack[2].data[i] = "G"
    /\ undo_stack[2].data # consensus
    /\ published = <<Event("consensus_changed", <<0, Len(consensus) - 1>>)>>

(***************************************************************************)
(* Properties of quality trimming                                          *)
(***************************************************************************)
IsGood(ch) == ch \in {"A", "C", "G", "T"}

\* The number of good positions among the `window` positions from the
\* 0-based index start.
GoodIn(c, start, window) ==
    Cardinality({i \in (start + 1)..(start + window) : IsGood(c[i])})

\* The 0-based start indexes of the runs of `window` consecutive positions
\* that hold at least minGood good positions.
GoodRuns(c, window, minGood) ==
    {start \in 0..(Len(c) - window) : GoodIn(c, start, window) >= minGood}

SetMin(S) == CHOOSE x \in S : \A y \in S : x <= y

SetMax(S) == CHOOSE x \in S : \A y \in S : x >= y

\* The reference: all spaces when no run qualifies, otherwise c between the
\* start of the first qualifying run and the end of the last one, and spaces
\* outside.
TrimReference(c, window, minGood) ==
    LET runs == GoodRuns(c, window, minGood)
        L == SetMin(runs)
        R == SetMax(runs) + window - 1
    IN IF runs = {} THEN [i \in 1..Len(c) |-> " "]
       ELSE [i \in 1..Len(c) |-> IF L < i /\ i <= R + 1 THEN c[i] ELSE " "]

TrimCalled == call.op = "trimConsensus"

\* C8: for 1 <= window <= len(c) and minGood <= window, trimConsensus(window,
\* minGood) leaves exactly the reference result: all spaces when no run of
\* `window` positions has minGood good ones, otherwise c unchanged from the
\* first qualifying run's start to the last one's end and spaces elsewhere;
\* "NNNACGTNNN" with window 3 and minGood 2 becomes "  NACGTN  ".
C8_TrimMatchesReference ==
    TrimCalled =>
        LET window == call.args[1]
            minGood == call.args[2]
        IN /\ (1 <= window /\ window <= Len(call.before) /\ minGood <= window)
                  => /\ raised = NoError
                     /\ consensus = TrimReference(call.before, window, minGood)
           /\ (call.before = TrimExample /\ window = 3 /\ minGood = 2)
                  => consensus = <<" ", " ", "N", "A", "C", "G", "T", "N",
                                   " ", " ">>

\* C8 witness: the example has been trimmed with window 3 and minGood 2, and
\* both ends were cut.
C8_Witness ==
    /\ TrimCalled
    /\ call.before = TrimExample
    /\ call.args = <<3, 2>>
    /\ consensus = <<" ", " ", "N", "A", "C", "G", "T", "N", " ", " ">>

AllN(c) == \A i \in DOMAIN c : c[i] = "N"

\* C9 as stated: an all-'N' consensus is blanked by trimConsensus with any
\* window and any minGood > 0.
C9_AllNBlanked_AnyWindow ==
    (TrimCalled /\ AllN(call.before) /\ call.args[2] > 0)
        => consensus = [i \in 1..Len(call.before) |-> " "]

\* C9 amended: an all-'N' consensus is blanked by trimConsensus with any
\* minGood > 0 and any window with 0 <= window <= len(consensus); with a
\* window longer than the consensus the call changes nothing, and with a
\* negative window it raises IndexError and changes nothing.
C9_AllNBlanked ==
    (TrimCalled /\ AllN(call.before) /\ call.args[2] > 0)
        => /\ (0 <= call.args[1] /\ call.args[1] <= Len(call.before))
                => /\ raised = NoError
                   /\ consensus = [i \in 1..Len(call.before) |-> " "]
           /\ call.args[1] > Len(call.before)
                => /\ raised = NoError
                   /\ consensus = call.before
           /\ call.args[1] < 0
                => /\ raised = "IndexError"
                   /\ consensus = call.before

\* C9 witness: a consensus of three 'N' has been blanked.
C9_Witness ==
    /\ TrimCalled
    /\ call.before = <<"N", "N", "N">>
    /\ call.args[2] > 0
    /\ consensus = <<" ", " ", " ">>

(***************************************************************************)
(* Properties of construction                                              *)
(***************************************************************************)
Constructed == call.op = "__init__"

\* The consensus before any trimming: the one the algorithm leaves, which is
\* the builder's own when auto-trim is off.
UntrimmedIs(raw) ==
    /\ consconf = raw.consconf
    /\ ~settings.do_autotrim => consensus = raw.consensus

\* C6 as stated: in Single-Sequence mode the untrimmed consensus character
\* of a column is 'N' if and only if the trace's confidence there is below
\* the threshold.
C6_SingleNIffBelow ==
    (Constructed /\ numseqs = 1) =>
        LET raw == makeSingleConsensus(seq1aligned, seq1conf,
                                       settings.min_confscore)
        IN \A i \in DOMAIN seq1aligned :
               (raw.consensus[i] = "N")
                   <=> (seq1conf[i] < settings.min_confscore)

\* C6 amended: in Single-Sequence mode the untrimmed consensus character of a
\* column is 'N' if and only if the trace's confidence there is below the
\* threshold or the trace's base call is itself 'N'; when it is not 'N' it
\* is the trace's base call; and the recorded confidence is the trace's.
C6_SingleConsensus ==
    (Constructed /\ numseqs = 1) =>
        LET raw == makeSingleConsensus(seq1aligned, seq1conf,
                                       settings.min_confscore)
        IN /\ UntrimmedIs(raw)
           /\ Len(raw.consensus) = Len(seq1aligned)
           /\ Len(raw.consconf) = Len(seq1aligned)
           /\ \A i \in DOMAIN seq1aligned :
                  /\ (raw.consensus[i] = "N")
                         <=> \/ seq1conf[i] < settings.min_confscore
                             \/ seq1aligned[i] = "N"
                  /\ raw.consensus[i] # "N"
                         => raw.consensus[i] = seq1aligned[i]
                  /\ raw.consconf[i] = seq1conf[i]

\* C6 witness: a single trace was built without trimming into a consensus
\* with a base that cleared the threshold and an 'N' for a base below it.
C6_Witness ==
    /\ Constructed
    /\ numseqs = 1
    /\ ~settings.do_autotrim
    /\ Len(consensus) = 2
    /\ consensus[1] = "N" /\ seq1aligned[1] = "A"
    /\ consensus[2] = "T" /\ seq1conf[2] = settings.min_confscore

\* The score Legacy mode gives a sequence at a column.
LegacyScore(ch, conf) == IF ch \in {"-", "N"} THEN -1 ELSE conf

\* The Legacy consensus character of one column, from that column alone.
LegacyChar(ch1, conf1, ch2, conf2, t) ==
    LET clears1 == LegacyScore(ch1, conf1) >= t
        clears2 == LegacyScore(ch2, conf2) >= t
    IN IF clears1 /\ clears2 THEN (IF ch1 # ch2 THEN "N" ELSE ch1)
       ELSE IF clears1 THEN ch1
       ELSE IF clears2 THEN ch2
       ELSE "N"

\* C7: in Legacy mode each untrimmed column depends on that column alone: 'N'
\* when both sequences clear the threshold with different bases, the common
\* base when they agree, the clearing sequence's base when one clears, 'N'
\* when none does, a gap or an 'N' scoring -1; and the recorded confidence is
\* the larger of the two scores.
C7_LegacyConsensus ==
    (Constructed /\ numseqs = 2 /\ settings.consensus_algorithm = "legacy") =>
        LET raw == makeLegacyConsensus(seq1aligned, seq1conf, seq2aligned,
                                       seq2conf, settings.min_confscore)
        IN /\ UntrimmedIs(raw)
           /\ Len(raw.consensus) = Len(seq1aligned)
           /\ Len(raw.consconf) = Len(seq1aligned)
           /\ \A i \in DOMAIN seq1aligned :
                  /\ raw.consensus[i]
                         = LegacyChar(seq1aligned[i], seq1conf[i],
                                      seq2aligned[i], seq2conf[i],
                                      settings.min_confscore)
                  /\ raw.consconf[i]
                         = Max2(LegacyScore(seq1aligned[i], seq1conf[i]),
                                LegacyScore(seq2aligned[i], seq2conf[i]))

\* C7 witness: a Legacy consensus was built without trimming; its first
\* column holds two different bases that both clear the threshold with equal
\* scores and is 'N' with that score, and in its second column only the
\* second sequence clears.
C7_Witness ==
    /\ Constructed
    /\ numseqs = 2
    /\ settings.consensus_algorithm = "legacy"
    /\ ~settings.do_autotrim
    /\ Len(consensus) = 2
    /\ seq1aligned[1] = "A" /\ seq2aligned[1] = "T"
    /\ seq1conf[1] = seq2conf[1] /\ seq1conf[1] >= settings.min_confscore
    /\ consensus[1] = "N" /\ consconf[1] = seq1conf[1]
    /\ seq1aligned[2] = "-" /\ consensus[2] = "T"

\* C10: once built, the consensus and the confidences are as long as the
\* alignment has columns.
C10_LengthInvariant ==
    Constructed =>
        /\ Len(consensus) = Len(seq1aligned)
        /\ Len(consconf) = Len(seq1aligned)

\* No column of the alignment is a gap in both sequences.
NoDoubleGap ==
    \A i \in DOMAIN seq2aligned : ~(seq1aligned[i] = "-" /\ seq2aligned[i] = "-")

\* What does hold: the lengths agree for a single trace and for every
\* alignment without a column that is a gap in both sequences.
LengthInvariantNoDoubleGap ==
    (Constructed /\ NoDoubleGap) =>
        /\ Len(consensus) = Len(seq1aligned)
        /\ Len(consconf) = Len(seq1aligned)

\* The probability that the base is x given one base call ch with score sc,
\* in units of 1/300: 1 - eprob for the called base, eprob / 3 for another.
CallWeight(x, ch, sc) ==
    IF x = ch THEN 3 * (100 - ErrorProb(sc)) ELSE ErrorProb(sc)

\* The posterior probability of x after both base calls, up to the factor
\* that all four bases share.
PosteriorWeight(x, ch1, sc1, ch2, sc2) ==
    CallWeight(x, ch1, sc1) * CallWeight(x, ch2, sc2)

\* The position of a base in the order 'A', 'T', 'G', 'C'.
Rank(x) == CHOOSE k \in DOMAIN BayesBases : BayesBases[k] = x

\* The most probable base, the first in the order among equally probable
\* ones, with the Phred-type score of its posterior probability.
MostProbable(ch1, sc1, ch2, sc2) ==
    LET Bases == {"A", "T", "G", "C"}
        W(x) == PosteriorWeight(x, ch1, sc1, ch2, sc2)
        best == CHOOSE x \in Bases :
                    \A y \in Bases :
                        \/ W(x) > W(y)
                        \/ W(x) = W(y) /\ Rank(x) <= Rank(y)
        total == W("A") + W("T") + W("G") + W("C")
    IN [cbase |-> best, cscore |-> PhredScore(total - W(best), total)]

Unusable(ch) == ch \in {"-", "N"}

\* The pair (base, score) the Bayesian mode computes for one column.
BayesianPair(ch1, sc1, ch2, sc2) ==
    IF Unusable(ch1) /\ Unusable(ch2) THEN [cbase |-> "N", cscore |-> 1]
    ELSE IF Unusable(ch2) THEN [cbase |-> ch1, cscore |-> sc1]
    ELSE IF Unusable(ch1) THEN [cbase |-> ch2, cscore |-> sc2]
    ELSE MostProbable(ch1, sc1, ch2, sc2)

\* C13 as stated: with the computed pair of C13 below, the recorded
\* confidence is the computed score, and the recorded character is the
\* computed base if and only if the computed score is at least the
\* threshold, and 'N' otherwise.
C13_RecordedBaseIffClears ==
    (Constructed /\ numseqs = 2 /\ settings.consensus_algorithm = "Bayesian")
        =>
        LET raw == makeBayesianConsensus(seq1aligned, seq1conf, seq2aligned,
                                         seq2conf, settings.min_confscore)
        IN \A i \in DOMAIN seq1aligned :
               LET pair == BayesianPair(seq1aligned[i], seq1conf[i],
                                        seq2aligned[i], seq2conf[i])
               IN /\ raw.consconf[i] = pair.cscore
                  /\ (raw.consensus[i] = pair.cbase)
                         <=> (pair.cscore >= settings.min_confscore)
                  /\ pair.cscore < settings.min_confscore
                         => raw.consensus[i] = "N"

\* C13 amended: in Bayesian mode, per untrimmed column, the computed pair is
\* ('N', 1) when neither sequence is usable, the usable sequence's base and
\* score when exactly one is, and the most probable base with its
\* posterior-derived score when both are; the recorded confidence is the
\* computed score, and the recorded character is the computed base when the
\* computed score is at least the threshold and 'N' otherwise (which is
\* also the computed base when neither sequence is usable).
C13_BayesianConsensus ==
    (Constructed /\ numseqs = 2 /\ settings.consensus_algorithm = "Bayesian")
        =>
        LET raw == makeBayesianConsensus(seq1aligned, seq1conf, seq2aligned,
                                         seq2conf, settings.min_confscore)
        IN /\ UntrimmedIs(raw)
           /\ Len(raw.consensus) = Len(seq1aligned)
           /\ Len(raw.consconf) = Len(seq1aligned)
           /\ \A i \in DOMAIN seq1aligned :
                  LET pair == BayesianPair(seq1aligned[i], seq1conf[i],
                                           seq2aligned[i], seq2conf[i])
                  IN /\ raw.consconf[i] = pair.cscore
                     /\ raw.consensus[i]
                            = IF pair.cscore >= settings.min_confscore
                              THEN pair.cbase ELSE "N"

\* C13 witness: a Bayesian consensus was built without trimming; in its first
\* column both sequences are usable and disagree, the computed score is below
\* the threshold and recorded with an 'N'; in its second column only the
\* second sequence is usable and its base and score are recorded.
C13_Witness ==
    /\ Constructed
    /\ numseqs = 2
    /\ settings.consensus_algorithm = "Bayesian"
    /\ ~settings.do_autotrim
    /\ Len(consensus) = 2
    /\ seq1aligned[1] = "A" /\ seq2aligned[1] = "T"
    /\ consensus[1] = "N"
    /\ consconf[1] > 1 /\ consconf[1] < settings.min_confscore
    /\ seq1aligned[2] = "-" /\ seq2aligned[2] = "T"
    /\ consensus[2] = "T" /\ consconf[2] = seq2conf[2]

(***************************************************************************)
(* Properties of the redo stack under new edits                            *)
(***************************************************************************)
EditOps == {"deleteBases", "modifyBases", "recalcConsensusSequence"}

\* redo() on the builder b wrote the data of the top redo record over the
\* record's range of b's consensus, touched nothing else of it, and popped
\* the record.
RedoWritesSavedData(b, r) ==
    LET top == b.redo_stack[Len(b.redo_stack)]
    IN /\ r.raised = NoError
       /\ Len(r.builder.consensus) = Len(b.consensus)
       /\ \A i \in DOMAIN b.consensus :
              r.builder.consensus[i]
                  = IF top.start < i /\ i <= top.end + 1
                    THEN top.data[i - top.start]
                    ELSE b.consensus[i]
       /\ r.builder.redo_stack
              = SubSeq(b.redo_stack, 1, Len(b.redo_stack) - 1)

\* The edit with result e kept the redo stack and published no
\* redo_state_changed.
EditKeepsRedo(e) ==
    /\ e.builder.redo_stack = redo_stack
    /\ Count(e.published, "redo_state_changed") = 0

\* Every deleteBases and modifyBases that can be called in the current state
\* keeps the redo stack; the recalculations are those of the steps.
EditsKeepRedo ==
    \A a \in Indexes, b \in Indexes :
        /\ EditKeepsRedo(deleteBases(Self, a, b))
        /\ \A newseq \in NewBases :
               EditKeepsRedo(modifyBases(Self, a, b, newseq))

\* In the current state, which is the state after an edit when that was the
\* last call, a redo() writes the saved data.
RedoFromHere ==
    redo_stack # <<>> => RedoWritesSavedData(Self, redo(Self))

\* A step that was an edit kept the redo stack and what its observer holds.
EditStepKeepsRedo ==
    call'.op \in EditOps =>
        /\ redo_stack' = redo_stack
        /\ redoAvail' = redoAvail
        /\ Count(published', "redo_state_changed") = 0

=============================================================================
